---- MODULE Spec2Model ----
(***************************************************************************)
(* Route compiler of http-api-client (HttpApiClient.make and its           *)
(* resolvers).  One invocation of a compiled route is a chain of           *)
(* asynchronous steps: resolve url and headers, encode the body, assemble  *)
(* the request, execute it through the HttpClient service, classify the    *)
(* response, run getError or getResponse.  Routes are given to make as     *)
(* they are, or built by the constructors get, post, put, del and by the   *)
(* methods of a Client; the HttpClient is provided as it is or through     *)
(* layer(config), which rewrites every request before the transport.       *)
(*                                                                         *)
(* Every value is a tuple whose first element is a tag, so values of       *)
(* different shapes can be compared.                                       *)
(***************************************************************************)
EXTENDS Integers, Sequences, FiniteSets, TLC

\* ---------------------------------------------------------------- bounds
\* number of invocation slots; Spec runs one invocation, the others stay off;
\* SpecConcurrent runs them all
MaxInvocations == 2
\* payload identifiers carried by typed values and JSON objects
MaxValue == 1

Invocations == 1..MaxInvocations
ValueIds == 1..MaxValue

\* ------------------------------------------------------------ descriptors
Absent == <<"absent">>
Undefined == <<"undefined">>

\* a schema descriptor: its name, and whether the schema object is callable
\* (every schema built by effect's Schema module is a class constructor; a
\* hand-written object implementing the Schema interface is not)
SchemaOf(name, callable) == <<"schema", name, callable>>
FnOf(name) == <<"fn", name>>

\* A url is the sequence of the pieces it is written with, so that its first
\* character and the concatenation of two urls are what they are in the code.
TodoUrl == <<"/", "todos">>
AbsoluteTodoUrl == <<"https://other.example.com", "/", "todos">>
UrlDescriptors == {<<"string", TodoUrl>>, FnOf("todoUrl")}

AcceptJson == <<"headers", {<<"accept", "application/json">>}>>
\* a header set that already holds an authorization header
BasicAuth == <<"headers", {<<"authorization", "Basic dXNlcg==">>}>>
HeadersDescriptors == {Absent, AcceptJson, FnOf("headersFn")}

BodyDescriptors == {Absent, SchemaOf("Todo", TRUE)}

ResponseDescriptors ==
    {Absent, FnOf("responseFn"), SchemaOf("Todo", TRUE), SchemaOf("Todo", FALSE)}

ErrorDescriptors ==
    {Absent, FnOf("errorFn"), SchemaOf("ApiError", TRUE), SchemaOf("ApiError", FALSE)}

\* filterStatusOk?: boolean
FilterStatusOkValues == {"undefined", "false", "true"}

\* the fields of class Route
RouteRecords ==
    [method : {"GET", "POST"},
     url : UrlDescriptors,
     headers : HeadersDescriptors,
     body : BodyDescriptors,
     response : ResponseDescriptors,
     error : ErrorDescriptors,
     filterStatusOk : FilterStatusOkValues]

\* the routes invoked: GET routes without a body schema, POST routes with one
Routes == {r \in RouteRecords : (r.method = "GET") <=> (r.body = Absent)}

NoRoute ==
    [method |-> "GET", url |-> <<"string", TodoUrl>>, headers |-> Absent,
     body |-> Absent, response |-> Absent, error |-> Absent,
     filterStatusOk |-> "undefined"]

\* JavaScript truthiness of a descriptor field (spec.headers, spec.body, ...)
Truthy(d) == d[1] # "absent"

\* Schema.isSchema(d): the descriptor carries the schema marker
isSchema(d) == d[1] = "schema"

\* fromMakerError(error) = S.isSchema(error) ? schema(error) : fn(error)
fromMakerError(d) == IF isSchema(d) THEN <<"Schema", d>> ELSE <<"Fn", d>>

\* typeof d === "function": plain functions and class-based schemas
IsFunction(d) == d[1] = "fn" \/ (d[1] = "schema" /\ d[3])

\* ------------------------------------------------------------- parameters
\* MakerParams: void, or an object with any of the keys url, headers, body
TypedValues == {<<"val", s, n>> : s \in {"Todo", "Other"}, n \in ValueIds}

ParamsOf(keys, body) ==
    [defined |-> TRUE, keys |-> keys,
     url |-> IF "url" \in keys THEN <<"urlParams", "42">> ELSE Undefined,
     headers |-> IF "headers" \in keys THEN <<"headerParams", "text/plain">> ELSE Undefined,
     body |-> IF "body" \in keys THEN body ELSE Undefined]

VoidParams ==
    [defined |-> FALSE, keys |-> {}, url |-> Undefined, headers |-> Undefined,
     body |-> Undefined]

\* the parameter bags of the calls: none, any of the keys url and headers
\* without a body, and a body (valid or not) alone or with both other keys
ParamsSet ==
    {VoidParams} \cup
    {ParamsOf(keys, Undefined) : keys \in SUBSET {"url", "headers"}} \cup
    {ParamsOf(keys \cup {"body"}, b) : keys \in {{}, {"url", "headers"}}, b \in TypedValues}

\* params && "k" in params
HasKey(p, k) == p.defined /\ k \in p.keys

\* ------------------------------------------------ constructors, clients
\* An object literal is a function from the keys it has to their values; a
\* key it has may hold undefined (Absent).
\* { ...a, ...b }: the keys of both, with b's value where b has the key
Spread(a, b) ==
    [k \in (DOMAIN a) \cup (DOMAIN b) |-> IF k \in DOMAIN b THEN b[k] ELSE a[k]]

\* obj[k]: undefined when the object has no such key
Get(obj, k) == IF k \in DOMAIN obj THEN obj[k] ELSE Absent

\* new Route(obj): Data.TaggedClass copies the keys of obj; these are the
\* fields make reads from it
NewRoute(obj) ==
    [method |-> obj["method"],
     url |-> Get(obj, "url"),
     headers |-> Get(obj, "headers"),
     body |-> Get(obj, "body"),
     response |-> Get(obj, "response"),
     error |-> Get(obj, "error"),
     filterStatusOk |-> IF "filterStatusOk" \in DOMAIN obj
                        THEN obj["filterStatusOk"] ELSE "undefined"]

\* get(spec) = make(new Route({ ...spec, method: "GET" }))
get(spec) == NewRoute(Spread(spec, [method |-> "GET"]))
\* post(spec) = make(new Route({ ...spec, method: "POST" }))
post(spec) == NewRoute(Spread(spec, [method |-> "POST"]))
\* put(spec) = make(new Route({ ...spec, method: "PUT" }))
put(spec) == NewRoute(Spread(spec, [method |-> "PUT"]))
\* del(spec) = make(new Route({ ...spec, method: "DELETE" }))
del(spec) == NewRoute(Spread(spec, [method |-> "DELETE"]))

\* { headers: this.headers, error: this.error }
ClientDefaults(client) == [headers |-> client.headers, error |-> client.error]

\* Client.get that lets the client's error win over the per-call error
Client_get_DefaultWins(client, spec) ==
    NewRoute(Spread(Spread(Spread([headers |-> client.headers], spec),
                           [error |-> client.error]),
                    [method |-> "GET"]))

\* Client.get(spec) =
\*   make(new Route({ headers: this.headers, error: this.error, ...spec, method: "GET" }))
Client_get(client, spec) ==
    NewRoute(Spread(Spread(ClientDefaults(client), spec), [method |-> "GET"]))

\* Client.post that takes headers and error together from the per-call spec
\* as soon as it supplies one of them
Client_post_ResetsOther(client, spec) ==
    NewRoute(Spread(IF DOMAIN spec \cap {"headers", "error"} # {}
                    THEN spec ELSE Spread(ClientDefaults(client), spec),
                    [method |-> "POST"]))

\* Client.post(spec)
Client_post(client, spec) ==
    NewRoute(Spread(Spread(ClientDefaults(client), spec), [method |-> "POST"]))

\* Client.put that keeps the client's default where the per-call spec holds
\* undefined (this.headers and this.error taken with ??)
Client_put_DefaultOnUndefined(client, spec) ==
    NewRoute(Spread(Spread(ClientDefaults(client),
                           [k \in {x \in DOMAIN spec :
                                      x \notin {"headers", "error"} \/ spec[x] # Absent}
                               |-> spec[k]]),
                    [method |-> "PUT"]))

\* Client.put(spec)
Client_put(client, spec) ==
    NewRoute(Spread(Spread(ClientDefaults(client), spec), [method |-> "PUT"]))

\* Client.del that defaults filterStatusOk to true
Client_del_DefaultsFilter(client, spec) ==
    NewRoute(Spread(Spread(Spread(ClientDefaults(client), [filterStatusOk |-> "true"]),
                           spec),
                    [method |-> "DELETE"]))

\* Client.del(spec)
Client_del(client, spec) ==
    NewRoute(Spread(Spread(ClientDefaults(client), spec), [method |-> "DELETE"]))

\* the clients: new Client({ headers?, error? })
ClientHeaders == <<"headers", {<<"x-client", "web">>}>>
ClientError == FnOf("clientErrorFn")
\* a client without defaults and a client with both
Clients == {[headers |-> Absent, error |-> Absent],
            [headers |-> ClientHeaders, error |-> ClientError]}
NoClient == [headers |-> Absent, error |-> Absent]

\* the values the per-call spec objects give to the keys other than url,
\* headers and error (the types forbid method, and body for get, but nothing
\* checks them when the program runs)
SpecExtras ==
    [body |-> SchemaOf("Todo", TRUE), response |-> SchemaOf("Todo", FALSE),
     filterStatusOk |-> "true", method |-> "PATCH"]

ExtraKeySets ==
    {{}, {"body"}, {"response"}, {"filterStatusOk"}, {"method"},
     {"body", "response", "filterStatusOk"}}

\* the per-call spec objects: url always, headers and error missing, undefined
\* or given, and some of the other keys
SpecObjects ==
    UNION {
        {[k \in {"url"} \cup hk \cup ek \cup xk |->
             CASE k = "url" -> u
               [] k = "headers" -> h
               [] k = "error" -> e
               [] OTHER -> SpecExtras[k]] :
            u \in (IF xk = {} THEN UrlDescriptors ELSE {<<"string", TodoUrl>>}),
            hk \in {{}, {"headers"}}, h \in {Absent, AcceptJson},
            ek \in {{}, {"error"}}, e \in {Absent, SchemaOf("ApiError", FALSE)}} :
        xk \in ExtraKeySets}

\* how the route of an invocation was made: make(route), a free constructor
\* (get, post, put, del) or a method of a client, and the object given to it
Origin(via, method, client, spec) ==
    [via |-> via, method |-> method, client |-> client, spec |-> spec]

Direct(r) == Origin("make", r.method, NoClient, r)

ConstructorNames == {"get", "post", "put", "del"}

\* the Route the compiled callable of an origin closes over
Constructed(o) ==
    IF o.via = "make" THEN o.spec
    ELSE IF o.via = "free"
         THEN CASE o.method = "get" -> get(o.spec)
                [] o.method = "post" -> post(o.spec)
                [] o.method = "put" -> put(o.spec)
                [] o.method = "del" -> del(o.spec)
         ELSE CASE o.method = "get" -> Client_get(o.client, o.spec)
                [] o.method = "post" -> Client_post(o.client, o.spec)
                [] o.method = "put" -> Client_put(o.client, o.spec)
                [] o.method = "del" -> Client_del(o.client, o.spec)

\* ----------------------------------------------------------------- state
VARIABLES
    origin,     \* origin[i]: the constructor call that made the route of invocation i
    config,     \* the Config of the layer providing the HttpClient, or NoLayer
    route,      \* route[i]: the Route the invocation's compiled callable closes over
    pc,         \* pc[i]: position of invocation i in the chain of steps
    params,     \* params[i]: the parameter bag of the call
    url,        \* url[i]: const url of make's callable
    headers,    \* headers[i]: const headers (result of getHeaders)
    request,    \* request[i]: the request handed to client.execute
    response,   \* response[i]: the HttpClientResponse received
    outcome,    \* outcome[i]: exit of the invocation's Effect
    authorized, \* authorized[i]: the request after the layer's token rule
    sent,       \* sent[i]: the request after the layer's url rule, given to the transport
    answer,     \* answer[i]: what the transport produced for the request
    trace       \* trace[i]: the capability calls and steps made so far, in order

vars == <<origin, config, route, pc, params, url, headers, request, authorized, sent,
          response, outcome, answer, trace>>

None == <<"none">>

\* --------------------------------------------------------- JSON and text
\* JSON.stringify: the text of a JSON value (a text is not the value it spells)
Stringify(j) == <<"text", j>>
\* a body that is not JSON (an HTML error page, say)
NonJsonText == <<"rawtext", "<html>">>
IsJsonText(t) == t[1] = "text"
\* JSON.parse of a JSON text
JsonParse(t) == t[2]

JsonObject(s, n) == <<"obj", s, n>>
JsonString(t) == <<"str", t>>

\* results of effects: Right/Left of an Either, success/failure of an Effect
Ok(v) == <<"ok", v>>
Fail(e) == <<"fail", e>>
Die(d) == <<"die", d>>
IsOk(r) == r[1] = "ok"

ParseError == <<"ParseError">>
TypeErrorDefect == <<"TypeError">>

\* ----------------------------------------------------- schema capability
\* Schema.encode(schema)(a): a value of the schema's type becomes its JSON
\* form; any other value is a ParseError.  The result is an Either.
SchemaEncode(schema, a) ==
    IF a[1] = "val" /\ a[2] = schema[2]
    THEN Ok(JsonObject(a[2], a[3]))
    ELSE Fail(ParseError)

\* Schema.decodeUnknown(schema)(u)
SchemaDecode(schema, u) ==
    IF u[1] = "obj" /\ u[2] = schema[2]
    THEN Ok(<<"val", u[2], u[3]>>)
    ELSE Fail(ParseError)

\* Schema.decodeUnknown(Schema.parseJson(schema))(u): u must be a string
\* holding JSON text; the text is parsed and the result decoded
ParseJsonDecode(schema, u) ==
    IF u[1] = "str" /\ IsJsonText(u[2])
    THEN SchemaDecode(schema, JsonParse(u[2]))
    ELSE Fail(ParseError)

\* toJSON of the Either that Schema.encode returns
EitherToJson(r) ==
    IF IsOk(r) THEN <<"either", "Right", r[2]>> ELSE <<"either", "Left", r[2]>>

\* HttpBody.json(body: unknown): a JSON body whose text is JSON.stringify(body)
HttpBodyJson(j) == <<"body", Stringify(j)>>

\* ------------------------------------------------------------- responses
Statuses == {199, 200, 204, 300, 404}
StatusOk(status) == status >= 200 /\ status < 300

\* the bodies a server comes up with: a body that is not JSON, a JSON object
\* of either shape, and a JSON string holding the JSON text of such an object
ResponseBodies ==
    {NonJsonText} \cup
    {Stringify(JsonObject(s, 1)) : s \in {"Todo", "ApiError"}} \cup
    {Stringify(JsonString(Stringify(JsonObject(s, 1)))) : s \in {"Todo", "ApiError"}}

\* HttpClientResponse: status and the (unread) body text
ResponseOf(status, text) == <<"response", status, text>>

\* response.json
ResponseJson(res) ==
    IF IsJsonText(res[3]) THEN Ok(JsonParse(res[3])) ELSE Fail(<<"ResponseError", "Decode">>)

\* ------------------------------------------------------ url and headers
\* the url function of the route: (params) => `/todos/${params.id}`
UrlFn(arg) == TodoUrl \o <<"/", arg[2]>>

\* const url = typeof spec.url === "function" && params && "url" in params
\*   ? spec.url(params.url) : (spec.url as string)
\* (a function descriptor called without a url key is itself taken as the url)
ResolveUrl(spec, p) ==
    IF spec.url[1] = "fn" /\ HasKey(p, "url")
    THEN <<"url", UrlFn(p.url)>>
    ELSE IF spec.url[1] = "fn" THEN <<"function", spec.url[2]>>
    ELSE <<"url", spec.url[2]>>

\* the headers function of the route:
\* (params) => Effect.succeed(Headers.fromInput({"Content-Type": params.contentType}))
HeadersFn(arg) == <<"headers", {<<"content-type", arg[2]>>}>>
HeadersFailure == <<"HeadersError">>

\* getHeaders that goes on without headers when the headers function fails
getHeaders_SwallowsFailure(spec, p, fnOk) ==
    IF ~Truthy(spec.headers) THEN Ok(Undefined)
    ELSE IF spec.headers[1] = "fn" /\ HasKey(p, "headers")
         THEN (IF fnOk THEN Ok(HeadersFn(p.headers)) ELSE Ok(Undefined))
         ELSE Ok(spec.headers)

\* getHeaders(params); fnOk is whether the Effect of a headers function succeeds
getHeaders(spec, p, fnOk) ==
    IF ~Truthy(spec.headers) THEN Ok(Undefined)
    ELSE IF spec.headers[1] = "fn" /\ HasKey(p, "headers")
         THEN (IF fnOk THEN Ok(HeadersFn(p.headers)) ELSE Fail(HeadersFailure))
         ELSE Ok(spec.headers)

\* whether getHeaders invokes spec.headers
CallsHeadersFn(spec, p) ==
    Truthy(spec.headers) /\ spec.headers[1] = "fn" /\ HasKey(p, "headers")

\* ---------------------------------------------------------------- request
\* const bodyJson = spec.body && params && "body" in params
\*   ? yield* Schema.encode(spec.body)(params.body).pipe(HttpBody.json) : undefined
\* x.pipe(f) is f(x): HttpBody.json receives the Either returned by Schema.encode
EncodesBody(spec, p) == Truthy(spec.body) /\ HasKey(p, "body")

BodyJson(spec, p) ==
    IF EncodesBody(spec, p)
    THEN HttpBodyJson(EitherToJson(SchemaEncode(spec.body, p.body)))
    ELSE Undefined

\* Headers.setAll: the entries of h overwrite those of base with the same name
SetAllHeaders(base, h) ==
    {e \in base : \A f \in h : f[1] # e[1]} \cup h

\* HttpClientRequest.setHeaders(req, headers); a value without entries (a
\* function object) contributes none
SetHeaders(req, h) ==
    IF h[1] = "headers" THEN [req EXCEPT !.headers = SetAllHeaders(req.headers, h[2])]
    ELSE req

\* HttpClientRequest.setBody(req, body): attaches the body and sets the
\* content-type of the body
SetBody(req, b) ==
    [req EXCEPT !.body = b,
                !.headers = SetAllHeaders(req.headers, {<<"content-type", "application/json">>})]

\* HttpClientRequest.make(spec.method)(url).pipe(setHeaders?, setBody?)
AssembleRequest(spec, u, h, b) ==
    LET r0 == [method |-> spec.method, url |-> u, headers |-> {}, body |-> Undefined]
        r1 == IF h # Undefined THEN SetHeaders(r0, h) ELSE r0
    IN  IF b # Undefined THEN SetBody(r1, b) ELSE r1

NoRequest == [method |-> "none", url |-> Undefined, headers |-> {}, body |-> Undefined]

\* ------------------------------------------------------ request rewriter
\* Config: { url: string; accessToken: string | undefined }
BaseUrls == {<<"https://api.example.com">>, <<"/", "api">>}
AccessTokens == {Undefined, <<"string", "">>, <<"string", "s3cr3t">>}
Configs == [url : BaseUrls, accessToken : AccessTokens]

\* the HttpClient is provided by layer(config), or by the platform as it is
NoLayer == <<"nolayer">>
LayerOf(cfg) == <<"layer", cfg>>

\* req.url.startsWith("/")
StartsWithSlash(u) == Len(u) > 0 /\ u[1] = "/"

\* UrlRule that prefixes every url, absolute or not
UrlRule_AlwaysPrefix(cfg, req) ==
    [req EXCEPT !.url = <<"url", cfg.url \o req.url[2]>>]

\* (req) => req.url.startsWith("/")
\*   ? req.pipe(HttpClientRequest.setUrl(config.url + req.url)) : req
UrlRule(cfg, req) ==
    IF StartsWithSlash(req.url[2])
    THEN [req EXCEPT !.url = <<"url", cfg.url \o req.url[2]>>]
    ELSE req

\* `Bearer ${token}`
BearerValue(token) ==
    CASE token = "" -> "Bearer "
      [] token = "s3cr3t" -> "Bearer s3cr3t"

\* HttpClientRequest.bearerToken(token): sets the authorization header
BearerToken(req, token) ==
    [req EXCEPT !.headers = SetAllHeaders(@, {<<"authorization", BearerValue(token)>>})]

\* truthiness of config.accessToken: undefined and "" are falsy
TokenTruthy(t) == t[1] = "string" /\ t[2] # ""

\* (req) => config.accessToken
\*   ? req.pipe(HttpClientRequest.bearerToken(config.accessToken)) : req
TokenRule(cfg, req) ==
    IF TokenTruthy(cfg.accessToken) THEN BearerToken(req, cfg.accessToken[2]) ELSE req

\* Rewrite with the url rule building a fresh request for the new url
Rewrite_FreshRequest(cfg, req) ==
    LET tokened == TokenRule(cfg, req)
        out == UrlRule(cfg, tokened)
    IN  IF out.url = tokened.url THEN out ELSE [out EXCEPT !.headers = {}]

\* client.pipe(mapRequestInput(urlRule), mapRequestInput(tokenRule)): the
\* client made last receives the request first, so the token rule is applied,
\* then the url rule
Rewrite(cfg, req) == UrlRule(cfg, TokenRule(cfg, req))

\* req.url of a request made with a url that is not a string has no
\* startsWith: the url rule throws a TypeError
RewriteThrows(cfg, req) == cfg # NoLayer /\ req.url[1] = "function"

\* ------------------------------------------------------------- resolvers
\* !spec.filterStatusOk
FilterOff(spec) == spec.filterStatusOk # "true"

\* IsFailed with the upper bound of the status range off by one
IsFailed_Above300(spec, res) ==
    FilterOff(spec) /\ Truthy(spec.error) /\ (res[2] < 200 \/ res[2] > 300)

\* the condition guarding getError in make's callable
IsFailed(spec, res) ==
    FilterOff(spec) /\ Truthy(spec.error) /\ (res[2] < 200 \/ res[2] >= 300)

\* the error function of the route: (res) => new ApiError({statusCode: res.status})
ErrorFn(res) == <<"ApiErrorFromFn", res[2]>>
\* the response function of the route: it succeeds with a value or fails
ResponseFnValue(res) == <<"custom", res[2]>>
ResponseFnFailure == <<"CustomFailure">>

\* A resolver yields its exit (out) and the capability calls it made, in
\* order (ev): <<who, "json">> is a read of the body as JSON,
\* <<who, "decode", schema, json>> a decoding of that JSON against the schema,
\* <<who, "call", getter, response, produced>> a call of a function getter.
Resolved(out, ev) == [out |-> out, ev |-> ev]

\* parseResponse that hands back the JSON it read without validating it
parseResponse_Unvalidated(who, schema, res) ==
    LET json == ResponseJson(res)
    IN  IF IsOk(json)
        THEN Resolved(json, << <<who, "json">>, <<who, "decode", schema, json[2]>> >>)
        ELSE Resolved(json, << <<who, "json">> >>)

\* parseResponse that reads the body once to test it and once to decode it
parseResponse_ReadsTwice(who, schema, res) ==
    LET json == ResponseJson(res)
    IN  IF IsOk(json)
        THEN Resolved(ParseJsonDecode(schema, json[2]),
                      << <<who, "json">>, <<who, "json">>,
                         <<who, "decode", schema, json[2]>> >>)
        ELSE Resolved(json, << <<who, "json">> >>)

\* parseResponse(schema, response)
parseResponse(who, schema, res) ==
    LET json == ResponseJson(res)
    IN  IF IsOk(json)
        THEN Resolved(ParseJsonDecode(schema, json[2]),
                      << <<who, "json">>, <<who, "decode", schema, json[2]>> >>)
        ELSE Resolved(json, << <<who, "json">> >>)

\* getter(response) for a getter whose typeof is "function": a plain function
\* runs and produces its result; a class constructor called without new
\* throws a TypeError
CallGetter(who, getter, res, produced) ==
    IF getter[1] = "fn"
    THEN Resolved(produced, << <<who, "call", getter, res, produced>> >>)
    ELSE Resolved(Die(TypeErrorDefect), << <<who, "call", getter, res, Die(TypeErrorDefect)>> >>)

\* getResponse that reads and decodes the body when there is no descriptor
getResponse_AlwaysReads(getter, res, fnOk) ==
    IF ~Truthy(getter) THEN parseResponse("response", SchemaOf("Todo", FALSE), res)
    ELSE IF IsFunction(getter)
         THEN CallGetter("response", getter, res,
                         IF fnOk THEN Ok(ResponseFnValue(res)) ELSE Fail(ResponseFnFailure))
         ELSE parseResponse("response", getter, res)

\* getResponse that answers the raw response when the response function fails
getResponse_SwallowsFailure(getter, res, fnOk) ==
    IF ~Truthy(getter) THEN Resolved(Ok(res), <<>>)
    ELSE IF IsFunction(getter)
         THEN LET r == CallGetter("response", getter, res,
                           IF fnOk THEN Ok(ResponseFnValue(res)) ELSE Fail(ResponseFnFailure))
              IN  Resolved(IF r.out[1] = "fail" THEN Ok(res) ELSE r.out, r.ev)
         ELSE parseResponse("response", getter, res)

\* getResponse(getter, response); fnOk is whether a response function succeeds
getResponse(getter, res, fnOk) ==
    IF ~Truthy(getter) THEN Resolved(Ok(res), <<>>)
    ELSE IF IsFunction(getter)
         THEN CallGetter("response", getter, res,
                         IF fnOk THEN Ok(ResponseFnValue(res)) ELSE Fail(ResponseFnFailure))
         ELSE parseResponse("response", getter, res)

\* getError that decodes the body even when the getter is a function
getError_AlwaysDecodes(getter, res) ==
    LET error == parseResponse("error", SchemaOf("ApiError", FALSE), res)
    IN  Resolved(IF IsOk(error.out) THEN Fail(error.out[2]) ELSE error.out, error.ev)

\* getError(getter, response)
getError(getter, res) ==
    IF IsFunction(getter)
    THEN LET r == CallGetter("error", getter, res, Ok(ErrorFn(res)))
         IN  Resolved(IF IsOk(r.out) THEN Fail(r.out[2]) ELSE r.out, r.ev)
    ELSE LET error == parseResponse("error", getter, res)
         IN  Resolved(IF IsOk(error.out) THEN Fail(error.out[2]) ELSE error.out, error.ev)

\* ---------------------------------------------------------------- actions
Finish(i, result) ==
    /\ outcome' = [outcome EXCEPT ![i] = result]
    /\ pc' = [pc EXCEPT ![i] = "done"]

Log(i, events) == trace' = [trace EXCEPT ![i] = trace[i] \o events]

\* Call with the parameter bag kept in a variable shared by every invocation
Call_SharedParams(i, p) ==
    /\ pc[i] = "idle"
    /\ params' = [j \in Invocations |-> p]
    /\ url' = [url EXCEPT ![i] = ResolveUrl(route[i], p)]
    /\ pc' = [pc EXCEPT ![i] = "headers"]
    /\ Log(i, IF route[i].url[1] = "fn" /\ HasKey(p, "url")
               THEN << <<"url", "call", p.url>> >> ELSE <<>>)
    /\ UNCHANGED <<origin, config, route, authorized, sent, headers, request, response, outcome, answer>>

\* a caller invokes the compiled route with a parameter bag; the url is resolved
Call(i, p) ==
    /\ pc[i] = "idle"
    /\ params' = [params EXCEPT ![i] = p]
    /\ url' = [url EXCEPT ![i] = ResolveUrl(route[i], p)]
    /\ pc' = [pc EXCEPT ![i] = "headers"]
    /\ Log(i, IF route[i].url[1] = "fn" /\ HasKey(p, "url")
               THEN << <<"url", "call", p.url>> >> ELSE <<>>)
    /\ UNCHANGED <<origin, config, route, authorized, sent, headers, request, response, outcome, answer>>

\* const headers = yield* getHeaders(params)
ResolveHeaders(i, fnOk) ==
    /\ pc[i] = "headers"
    /\ LET r == getHeaders(route[i], params[i], fnOk)
       IN  /\ Log(i, IF CallsHeadersFn(route[i], params[i])
                      THEN << <<"headers", "call", params[i].headers, fnOk>> >> ELSE <<>>)
           /\ IF IsOk(r)
              THEN /\ headers' = [headers EXCEPT ![i] = r[2]]
                   /\ pc' = [pc EXCEPT ![i] = "body"]
                   /\ UNCHANGED outcome
              ELSE /\ Finish(i, r)
                   /\ UNCHANGED headers
    /\ UNCHANGED <<origin, config, route, authorized, sent, params, url, request, response, answer>>

\* const bodyJson = ...; const request = ...: the body is encoded and the
\* request assembled.  A url that is not a string is either carried as it is
\* or rejected by HttpClientRequest with a TypeError, depending on the
\* version of the platform library.
Assemble(i, strictUrl) ==
    /\ pc[i] = "body"
    /\ LET b == BodyJson(route[i], params[i])
       IN  /\ Log(i, (IF EncodesBody(route[i], params[i])
                      THEN << <<"body", "encode", params[i].body>> >> ELSE <<>>)
                     \o << <<"step", "assemble">> >>)
           /\ IF url[i][1] = "function" /\ strictUrl
              THEN /\ Finish(i, Die(TypeErrorDefect))
                   /\ UNCHANGED request
              ELSE /\ request' = [request EXCEPT ![i] =
                                     AssembleRequest(route[i], url[i], headers[i], b)]
                   /\ pc' = [pc EXCEPT ![i] = "execute"]
                   /\ UNCHANGED outcome
    /\ UNCHANGED <<origin, config, route, authorized, sent, params, url, headers, response, answer>>

\* the bodies a server may answer with: any of ResponseBodies, or the payload
\* it received
AnswerBodies(req) ==
    ResponseBodies \cup (IF req.body # Undefined THEN {req.body[2]} ELSE {})

TransportFailure == <<"RequestError", "Transport">>
StatusCodeFailure(res) == <<"ResponseError", "StatusCode", res[2]>>

\* ExecuteResult with the status filter applied whatever spec.filterStatusOk is
ExecuteResult_AlwaysFilter(spec, a) ==
    IF ~IsOk(a) THEN a
    ELSE IF ~StatusOk(a[2][2]) THEN Fail(StatusCodeFailure(a[2]))
    ELSE a

\* ExecuteResult with the status filter never applied
ExecuteResult_NeverFilter(spec, a) == a

\* ExecuteResult that turns a failure of the transport into a response
ExecuteResult_FailureAsResponse(spec, a) ==
    IF ~IsOk(a) THEN Ok(ResponseOf(404, NonJsonText))
    ELSE IF ~FilterOff(spec) /\ ~StatusOk(a[2][2]) THEN Fail(StatusCodeFailure(a[2]))
    ELSE a

\* what client.execute(request) yields for the transport's answer, where the
\* client is HttpClient.filterStatusOk(client) when spec.filterStatusOk is set
ExecuteResult(spec, a) ==
    IF ~IsOk(a) THEN a
    ELSE IF ~FilterOff(spec) /\ ~StatusOk(a[2][2]) THEN Fail(StatusCodeFailure(a[2]))
    ELSE a

\* const response = yield* client.execute(request), then the classification.
\* A client provided by layer(config) applies the token rule, then the url
\* rule, to the request before the transport receives it
\* (client.pipe(mapRequestInput(urlRule), mapRequestInput(tokenRule))
\* executes urlRule(tokenRule(request))).
Execute(i, a) ==
    /\ pc[i] = "execute"
    /\ Log(i, << <<"step", "execute">> >>)
    /\ IF RewriteThrows(config, request[i])
       THEN /\ Finish(i, Die(TypeErrorDefect))
            /\ UNCHANGED <<authorized, sent, answer, response>>
       ELSE LET tokened == IF config = NoLayer THEN request[i]
                           ELSE TokenRule(config[2], request[i])
                out == IF config = NoLayer THEN request[i]
                       ELSE Rewrite(config[2], request[i])
                r == ExecuteResult(route[i], a)
            IN  /\ authorized' = [authorized EXCEPT ![i] = tokened]
                /\ sent' = [sent EXCEPT ![i] = out]
                /\ answer' = [answer EXCEPT ![i] = a]
                /\ IF IsOk(r)
                   THEN /\ response' = [response EXCEPT ![i] = r[2]]
                        /\ pc' = [pc EXCEPT ![i] =
                                     IF IsFailed(route[i], r[2]) THEN "error" ELSE "response"]
                        /\ UNCHANGED outcome
                   ELSE /\ Finish(i, r)
                        /\ UNCHANGED response
    /\ UNCHANGED <<origin, config, route, params, url, headers, request>>

\* ResolveError that goes on to getResponse after getError
ResolveError_FallsThrough(i) ==
    /\ pc[i] = "error"
    /\ LET r == getError(route[i].error, response[i])
       IN  /\ pc' = [pc EXCEPT ![i] = "response"]
           /\ Log(i, << <<"step", "getError">> >> \o r.ev)
    /\ UNCHANGED <<origin, config, route, authorized, sent, params, url, headers, request, response, answer, outcome>>

\* yield* getError(spec.error, response): it never succeeds, so the
\* invocation ends here
ResolveError(i) ==
    /\ pc[i] = "error"
    /\ LET r == getError(route[i].error, response[i])
       IN  /\ Finish(i, r.out)
           /\ Log(i, << <<"step", "getError">> >> \o r.ev)
    /\ UNCHANGED <<origin, config, route, authorized, sent, params, url, headers, request, response, answer>>

\* ResolveResponse that executes the request again when getResponse fails
ResolveResponse_Retries(i, fnOk) ==
    /\ pc[i] = "response"
    /\ LET r == getResponse(route[i].response, response[i], fnOk)
       IN  /\ IF IsOk(r.out)
              THEN Finish(i, r.out)
              ELSE /\ pc' = [pc EXCEPT ![i] = "execute"]
                   /\ UNCHANGED outcome
           /\ Log(i, << <<"step", "getResponse">> >> \o r.ev)
    /\ UNCHANGED <<origin, config, route, authorized, sent, params, url, headers, request, response, answer>>

\* return yield* getResponse(spec.response, response)
ResolveResponse(i, fnOk) ==
    /\ pc[i] = "response"
    /\ LET r == getResponse(route[i].response, response[i], fnOk)
       IN  /\ Finish(i, r.out)
           /\ Log(i, << <<"step", "getResponse">> >> \o r.ev)
    /\ UNCHANGED <<origin, config, route, authorized, sent, params, url, headers, request, response, answer>>

Answers(req) ==
    {Ok(ResponseOf(st, b)) : st \in Statuses, b \in AnswerBodies(req)}
    \cup {Fail(TransportFailure)}

\* ------------------------------------------------------- specification
InitWith(live, origins, configs) ==
    /\ origin \in {[i \in Invocations |-> IF i \in live THEN f[i] ELSE Direct(NoRoute)] :
                      f \in [live -> origins]}
    /\ config \in configs
    /\ route = [i \in Invocations |-> Constructed(origin[i])]
    /\ pc = [i \in Invocations |-> IF i \in live THEN "idle" ELSE "off"]
    /\ params = [i \in Invocations |-> VoidParams]
    /\ url = [i \in Invocations |-> Undefined]
    /\ headers = [i \in Invocations |-> Undefined]
    /\ request = [i \in Invocations |-> NoRequest]
    /\ authorized = [i \in Invocations |-> NoRequest]
    /\ sent = [i \in Invocations |-> NoRequest]
    /\ response = [i \in Invocations |-> None]
    /\ outcome = [i \in Invocations |-> None]
    /\ answer = [i \in Invocations |-> None]
    /\ trace = [i \in Invocations |-> <<>>]

\* one invocation of any route compiled by make, the HttpClient provided as
\* it is
Init == InitWith({1}, {Direct(r) : r \in Routes}, {NoLayer})

Next ==
    \E i \in Invocations :
        \/ \E p \in ParamsSet : Call(i, p)
        \/ \E fnOk \in BOOLEAN : ResolveHeaders(i, fnOk)
        \/ \E strictUrl \in BOOLEAN : Assemble(i, strictUrl)
        \/ \E a \in Answers(request[i]) : Execute(i, a)
        \/ ResolveError(i)
        \/ \E fnOk \in BOOLEAN : ResolveResponse(i, fnOk)

Spec == Init /\ [][Next]_vars

\* the routes made by the free constructors and by the methods of a client
ConstructorOrigins ==
    {Origin("free", m, NoClient, spec) : m \in ConstructorNames, spec \in SpecObjects}
    \cup {Origin("client", m, c, spec) :
             m \in ConstructorNames, c \in Clients, spec \in SpecObjects}

\* one invocation of a route made by a constructor or a client method
InitClient == InitWith({1}, ConstructorOrigins, {NoLayer})
SpecClient == InitClient /\ [][Next]_vars

\* the routes invoked through a client provided by layer(config): relative,
\* absolute and computed urls, with and without headers, body and error
RewriterRoutes ==
    {[NoRoute EXCEPT !.method = m, !.url = u, !.headers = h, !.error = e,
                     !.body = IF m = "GET" THEN Absent ELSE SchemaOf("Todo", TRUE)] :
        u \in UrlDescriptors \cup {<<"string", AbsoluteTodoUrl>>},
        h \in {Absent, AcceptJson, BasicAuth},
        e \in {Absent, FnOf("errorFn")},
        m \in {"GET", "POST"}}

\* one invocation with the HttpClient provided by layer(config)
InitRewriter ==
    InitWith({1}, {Direct(r) : r \in RewriterRoutes}, {LayerOf(c) : c \in Configs})
SpecRewriter == InitRewriter /\ [][Next]_vars

\* the routes invoked concurrently: one made of functions, one of a fixed
\* header set and schemas
ConcurrentRoutes ==
    {[method |-> "GET", url |-> FnOf("todoUrl"), headers |-> FnOf("headersFn"),
      body |-> Absent, response |-> FnOf("responseFn"), error |-> FnOf("errorFn"),
      filterStatusOk |-> "undefined"],
     [method |-> "POST", url |-> <<"string", TodoUrl>>, headers |-> AcceptJson,
      body |-> SchemaOf("Todo", TRUE), response |-> SchemaOf("Todo", FALSE),
      error |-> SchemaOf("ApiError", FALSE), filterStatusOk |-> "undefined"]}

\* the parameter bags of the concurrent calls
ConcurrentParams ==
    {ParamsOf({"url", "headers"}, Undefined), ParamsOf({"body"}, <<"val", "Todo", 1>>)}

\* the answers the transport gives to the concurrent calls
ConcurrentAnswers ==
    {Ok(ResponseOf(200, Stringify(JsonString(Stringify(JsonObject("Todo", 1)))))),
     Ok(ResponseOf(404, Stringify(JsonObject("ApiError", 1)))),
     Fail(TransportFailure)}

\* a step of invocation i among the concurrent calls
StepConcurrent(i) ==
    \/ \E p \in ConcurrentParams : Call(i, p)
    \/ \E fnOk \in BOOLEAN : ResolveHeaders(i, fnOk)
    \/ \E strictUrl \in BOOLEAN : Assemble(i, strictUrl)
    \/ \E a \in ConcurrentAnswers : Execute(i, a)
    \/ ResolveError(i)
    \/ \E fnOk \in BOOLEAN : ResolveResponse(i, fnOk)

NextConcurrent == \E i \in Invocations : StepConcurrent(i)

\* every slot runs an invocation of one of the routes, in any interleaving
InitConcurrent == InitWith(Invocations, {Direct(r) : r \in ConcurrentRoutes}, {NoLayer})
SpecConcurrent == InitConcurrent /\ [][NextConcurrent]_vars

\* every capability call returns and the runtime keeps running a fiber whose
\* next step is ready: as long as some invocation has a step to take, a step
\* is eventually taken
FairSpec == SpecConcurrent /\ WF_vars(NextConcurrent)

\* ------------------------------------------------------------ properties
\* positions in trace[i] of the events <<who, what, ...>>
Events(i, who, what) ==
    {k \in DOMAIN trace[i] : trace[i][k][1] = who /\ trace[i][k][2] = what}
\* positions of every capability call made on behalf of descriptor who
EventsOf(i, who) == {k \in DOMAIN trace[i] : trace[i][k][1] = who}

RanError(i) == Events(i, "step", "getError") # {}
RanResponse(i) == Events(i, "step", "getResponse") # {}
\* the transport answered the request of invocation i with a response
Answered(i) == answer[i] # None /\ IsOk(answer[i])
AnswerStatus(i) == answer[i][2][2]
AnswerBody(i) == answer[i][2][3]
FilterFalseOrAbsent(i) == route[i].filterStatusOk \in {"false", "undefined"}
BadStatus(st) == st < 200 \/ st >= 300

\* C1: with filterStatusOk false or absent, the Error Resolver runs iff the
\* route has an error descriptor and the status is < 200 or >= 300; in every
\* other case the Response Resolver runs and the error descriptor is not used.
C1_ClassifyIff ==
    \A i \in Invocations :
        (Answered(i) /\ FilterFalseOrAbsent(i)) =>
            LET failed == route[i].error # Absent /\ BadStatus(AnswerStatus(i))
            IN  /\ pc[i] \in {"error", "response", "done"}
                /\ pc[i] = "error" => failed
                /\ pc[i] = "response" => ~failed
                /\ pc[i] = "done" =>
                      /\ RanError(i) <=> failed
                      /\ RanResponse(i) <=> ~failed
                      /\ ~failed => EventsOf(i, "error") = {}

C1_Witness ==
    \E i \in Invocations :
        /\ pc[i] = "done" /\ Answered(i) /\ FilterFalseOrAbsent(i)
        /\ route[i].error # Absent /\ AnswerStatus(i) = 404 /\ RanError(i)

\* C2: with filterStatusOk false or absent and no error descriptor, a response
\* with a status outside 200-299 is classified OK: it is handed unchanged to
\* the Response Resolver, and with no response descriptor the invocation
\* succeeds with the raw response carrying that status.
C2_BadStatusNoErrorIsOk ==
    \A i \in Invocations :
        (Answered(i) /\ FilterFalseOrAbsent(i) /\ route[i].error = Absent
            /\ BadStatus(AnswerStatus(i))) =>
            /\ pc[i] \in {"response", "done"}
            /\ response[i] = answer[i][2]
            /\ pc[i] = "done" =>
                  /\ RanResponse(i) /\ ~RanError(i)
                  /\ route[i].response = Absent =>
                        /\ outcome[i] = Ok(answer[i][2])
                        /\ outcome[i][2][2] = AnswerStatus(i)

C2_Witness ==
    \E i \in Invocations :
        /\ pc[i] = "done" /\ Answered(i) /\ FilterFalseOrAbsent(i)
        /\ route[i].error = Absent /\ route[i].response = Absent
        /\ AnswerStatus(i) = 404 /\ IsOk(outcome[i])

\* C3: with filterStatusOk true, every response whose status is outside
\* 200-299 fails the invocation with a transport-level failure, and the error
\* descriptor is never invoked or decoded against, schema or function.
C3_FilterStatusOkFailsUpstream ==
    \A i \in Invocations :
        (Answered(i) /\ route[i].filterStatusOk = "true" /\ BadStatus(AnswerStatus(i))) =>
            /\ pc[i] = "done"
            /\ outcome[i] = Fail(<<"ResponseError", "StatusCode", AnswerStatus(i)>>)
            /\ ~RanError(i)
            /\ EventsOf(i, "error") = {}

C3_Witness ==
    \E i \in Invocations :
        /\ Answered(i) /\ route[i].filterStatusOk = "true" /\ AnswerStatus(i) = 404
        /\ route[i].error # Absent /\ pc[i] = "done"

\* C4: with filterStatusOk false or absent and an error schema E, a response
\* with a status outside 200-299 whose JSON body is valid against E fails the
\* invocation with the value decoded from that body against E.
C4_ErrorSchemaDecodedValue ==
    \A i \in Invocations :
        (pc[i] = "done" /\ Answered(i) /\ FilterFalseOrAbsent(i)
            /\ route[i].error[1] = "schema" /\ BadStatus(AnswerStatus(i))
            /\ IsJsonText(AnswerBody(i))
            /\ IsOk(SchemaDecode(route[i].error, JsonParse(AnswerBody(i))))) =>
            outcome[i] = Fail(SchemaDecode(route[i].error, JsonParse(AnswerBody(i)))[2])

\* the echo case of C5: body and response schema are the same schema, the call
\* carries a body valid against it, and the server answers 2xx with the
\* payload it received
EchoedValidBody(i) ==
    /\ route[i].body[1] = "schema" /\ route[i].response[1] = "schema"
    /\ route[i].body[2] = route[i].response[2]
    /\ HasKey(params[i], "body")
    /\ IsOk(SchemaEncode(route[i].body, params[i].body))
    /\ Answered(i) /\ StatusOk(AnswerStatus(i))
    /\ request[i].body # Undefined
    /\ AnswerBody(i) = request[i].body[2]

\* C5: round trip: when the server echoes the JSON payload it received with a
\* 2xx status, the invocation called with a valid body v succeeds with v.
C5_RoundTrip ==
    \A i \in Invocations :
        (pc[i] = "done" /\ EchoedValidBody(i)) => outcome[i] = Ok(params[i].body)

\* the decodings against a schema recorded in trace[i] that failed validation
FailedDecodes(i) ==
    {k \in DOMAIN trace[i] :
        /\ trace[i][k][2] = "decode"
        /\ ~IsOk(ParseJsonDecode(trace[i][k][3], trace[i][k][4]))}

C7_ErrorFunction ==
    \A i \in Invocations :
        (pc[i] = "done" /\ RanError(i) /\ route[i].error[1] = "fn") =>
            /\ Cardinality(Events(i, "error", "call")) = 1
            /\ \A k \in Events(i, "error", "call") :
                  /\ trace[i][k][3] = route[i].error
                  /\ trace[i][k][4] = answer[i][2]
                  /\ IsOk(trace[i][k][5])
                  /\ outcome[i] = Fail(trace[i][k][5][2])
            /\ Events(i, "error", "json") = {}
            /\ Events(i, "error", "decode") = {}
            /\ EventsOf(i, "response") = {}

C7_Witness ==
    \E i \in Invocations :
        /\ pc[i] = "done" /\ RanError(i) /\ route[i].error[1] = "fn"
        /\ outcome[i] = Fail(<<"ApiErrorFromFn", 404>>)

\* C8: with no response descriptor and a classification OK, the invocation
\* succeeds with the raw response itself, status unchanged, and the body is
\* neither read nor decoded.
C8_NoResponseDescriptorRaw ==
    \A i \in Invocations :
        (pc[i] = "done" /\ RanResponse(i) /\ route[i].response = Absent) =>
            /\ outcome[i] = Ok(answer[i][2])
            /\ outcome[i][2][2] = AnswerStatus(i)
            /\ EventsOf(i, "response") = {}
            /\ EventsOf(i, "error") = {}

C8_Witness ==
    \E i \in Invocations :
        /\ pc[i] = "done" /\ RanResponse(i) /\ route[i].response = Absent
        /\ route[i].method = "GET" /\ AnswerStatus(i) = 204
        /\ outcome[i][2][2] = 204

\* C9: when the invocation is classified OK and the response descriptor is a
\* function, the function is invoked with the raw response; the invocation
\* succeeds with exactly the value it produces, or fails with exactly its
\* failure.
C9_ResponseFunction ==
    \A i \in Invocations :
        (pc[i] = "done" /\ RanResponse(i) /\ route[i].response[1] = "fn") =>
            /\ Cardinality(Events(i, "response", "call")) = 1
            /\ \A k \in Events(i, "response", "call") :
                  /\ trace[i][k][3] = route[i].response
                  /\ trace[i][k][4] = answer[i][2]
                  /\ trace[i][k][5][1] \in {"ok", "fail"}
                  /\ outcome[i] = trace[i][k][5]

C9_Witness ==
    \E i \in Invocations :
        /\ pc[i] = "done" /\ RanResponse(i) /\ route[i].response[1] = "fn"
        /\ outcome[i] = Fail(ResponseFnFailure)

\* C10: the url of the request handed to the transport is the result of
\* invoking the url descriptor with params.url whenever the descriptor is a
\* function, and the descriptor string unchanged whenever it is a string.
C10_RequestUrl ==
    \A i \in Invocations :
        pc[i] \in {"execute", "error", "response"} =>
            /\ route[i].url[1] = "string" => request[i].url = <<"url", route[i].url[2]>>
            /\ route[i].url[1] = "fn" =>
                  /\ Cardinality(Events(i, "url", "call")) = 1
                  /\ \A k \in Events(i, "url", "call") :
                        request[i].url = <<"url", UrlFn(trace[i][k][3])>>

\* the request of invocation i has been handed to client.execute
Handed(i) == pc[i] \in {"execute", "error", "response"} \/ answer[i] # None

\* C11: with no headers descriptor the request carries no headers from the
\* route; with a fixed header set it carries that set as it is; with a headers
\* function every invocation invokes it with params.headers and the request
\* carries the header set it produced (the function itself is never used as
\* the header set).
C11_HeadersResolution ==
    \A i \in Invocations :
        Handed(i) =>
            /\ route[i].headers = Absent => headers[i] = Undefined
            /\ route[i].headers[1] = "headers" =>
                  /\ headers[i] = route[i].headers
                  /\ route[i].headers[2] \subseteq request[i].headers
            /\ route[i].headers[1] = "fn" =>
                  /\ headers[i] # route[i].headers
                  /\ Cardinality(Events(i, "headers", "call")) = 1
                  /\ \A k \in Events(i, "headers", "call") :
                        /\ trace[i][k][3] = params[i].headers
                        /\ headers[i] = HeadersFn(trace[i][k][3])

\* the call parameters of invocation i hold a body that is not valid against
\* the body schema of its route, and the body step has been taken
InvalidBodyEncoded(i) ==
    /\ Events(i, "body", "encode") # {}
    /\ ~IsOk(SchemaEncode(route[i].body, params[i].body))

\* C12: when the route declares a body schema and the call parameters hold a
\* body that is not valid against it, the invocation fails with an EncodeError
\* and execute is never called for it.
C12_InvalidBodyIsEncodeError ==
    \A i \in Invocations :
        InvalidBodyEncoded(i) =>
            /\ pc[i] = "done"
            /\ outcome[i] = Fail(ParseError)
            /\ request[i] = NoRequest
            /\ Events(i, "step", "execute") = {}

\* C13: the request handed to the transport carries a body iff the route
\* declares a body schema and the call parameters include a body field; the
\* body it carries is the JSON payload of the schema-encoded value.
C13_BodyAttached ==
    \A i \in Invocations :
        Handed(i) =>
            /\ (request[i].body # Undefined) <=> EncodesBody(route[i], params[i])
            /\ EncodesBody(route[i], params[i])
                  /\ IsOk(SchemaEncode(route[i].body, params[i].body))
               => request[i].body =
                      HttpBodyJson(SchemaEncode(route[i].body, params[i].body)[2])

\* C14: every invocation calls execute at most once, and exactly once when
\* headers resolution and body encoding both succeeded; no outcome causes a
\* second execute call.
C14_ExecuteOnce ==
    \A i \in Invocations :
        /\ Cardinality(Events(i, "step", "execute")) <= 1
        /\ pc[i] = "done" /\ Events(i, "step", "assemble") # {}
           => Cardinality(Events(i, "step", "execute")) = 1

\* the route of invocation i was made by a method of a client
ViaClient(i) == origin[i].via = "client"
\* the per-call spec object given to the constructor has key k
Supplies(i, k) == k \in DOMAIN origin[i].spec
\* the descriptors named by the capability calls made on behalf of spec.error
ErrorsApplied(i) ==
    {trace[i][k][3] : k \in Events(i, "error", "call") \cup Events(i, "error", "decode")}

\* C15: a route made by a client method without an error field uses the
\* client's default error descriptor E; one made with an explicit error E2
\* uses E2, and E is never applied to that route's failures.
C15_ErrorDefault ==
    \A i \in Invocations :
        ViaClient(i) =>
            /\ ~Supplies(i, "error") =>
                  /\ route[i].error = origin[i].client.error
                  /\ ErrorsApplied(i) \subseteq {origin[i].client.error}
            /\ Supplies(i, "error") /\ Truthy(origin[i].spec["error"]) =>
                  /\ route[i].error = origin[i].spec["error"]
                  /\ ErrorsApplied(i) \subseteq {origin[i].spec["error"]}
                  /\ origin[i].client.error \notin ErrorsApplied(i)

\* a client with a default error made a route with an explicit error, and
\* the Error Resolver ran on it
C15_Witness ==
    \E i \in Invocations :
        /\ ViaClient(i) /\ origin[i].client.error = ClientError
        /\ Supplies(i, "error") /\ Truthy(origin[i].spec["error"])
        /\ pc[i] = "done" /\ ErrorsApplied(i) # {}

\* C16: client defaults are overridden per field: per-call headers without a
\* per-call error give the per-call headers and the client's error; a per-call
\* error without per-call headers gives the per-call error and the client's
\* headers.
C16_PerFieldOverride ==
    \A i \in Invocations :
        ViaClient(i) =>
            /\ Supplies(i, "headers") /\ ~Supplies(i, "error") =>
                  /\ route[i].headers = origin[i].spec["headers"]
                  /\ route[i].error = origin[i].client.error
                  /\ Handed(i) /\ Truthy(origin[i].spec["headers"])
                        => origin[i].spec["headers"][2] \subseteq request[i].headers
                  /\ Handed(i) /\ Truthy(origin[i].client.headers)
                        => origin[i].client.headers[2] \cap request[i].headers = {}
                  /\ ErrorsApplied(i) \subseteq {origin[i].client.error}
            /\ Supplies(i, "error") /\ ~Supplies(i, "headers") =>
                  /\ route[i].error = origin[i].spec["error"]
                  /\ route[i].headers = origin[i].client.headers
                  /\ Handed(i) /\ Truthy(origin[i].client.headers)
                        => origin[i].client.headers[2] \subseteq request[i].headers
                  /\ ErrorsApplied(i) \subseteq {origin[i].spec["error"]}

\* a client with both defaults made a route with per-call headers only; its
\* request went out and the client's error function classified the answer
C16_Witness ==
    \E i \in Invocations :
        /\ ViaClient(i) /\ origin[i].client = [headers |-> ClientHeaders, error |-> ClientError]
        /\ Supplies(i, "headers") /\ ~Supplies(i, "error")
        /\ origin[i].spec["headers"] = AcceptJson
        /\ pc[i] = "done" /\ ErrorsApplied(i) = {ClientError}

\* C17: the url, body, response and filterStatusOk of a route made by a
\* client method are those of the per-call spec, absent when it omits them.
C17_OnlyHeadersAndErrorDefaulted ==
    \A i \in Invocations :
        ViaClient(i) =>
            /\ route[i].url = origin[i].spec["url"]
            /\ \A k \in {"body", "response"} :
                  route[i][k] = (IF Supplies(i, k) THEN origin[i].spec[k] ELSE Absent)
            /\ route[i].filterStatusOk =
                  (IF Supplies(i, "filterStatusOk")
                   THEN origin[i].spec["filterStatusOk"] ELSE "undefined")

\* a client with both defaults made a route by del with no other field than
\* url; a bad status came back and was handed over as it is
C17_Witness ==
    \E i \in Invocations :
        /\ ViaClient(i) /\ origin[i].method = "del"
        /\ origin[i].client = [headers |-> ClientHeaders, error |-> ClientError]
        /\ DOMAIN origin[i].spec = {"url", "error"}
        /\ ~Truthy(origin[i].spec["error"])
        /\ pc[i] = "done" /\ Answered(i) /\ BadStatus(AnswerStatus(i))
        /\ outcome[i] = Ok(response[i])

\* C18: a route made by get or client.get never hands the transport a
\* request with a body, whatever the spec object and the call parameters
\* hold; the method of the request is always GET.
C18_GetHasNoBody ==
    \A i \in Invocations :
        origin[i].via \in {"free", "client"} /\ origin[i].method = "get" /\ Handed(i) =>
            /\ request[i].method = "GET"
            /\ request[i].body = Undefined

\* the request of invocation i went through the layer to the transport
Outgoing(i) == config # NoLayer /\ answer[i] # None

\* C19: url rule of the Request Rewriter: a url that starts with "/" is sent
\* as the configured base url followed by the original url, any other url is
\* sent unchanged; the rule never changes the headers, method or body.
C19_UrlRule ==
    \A i \in Invocations :
        Outgoing(i) =>
            /\ sent[i].url =
                  (IF StartsWithSlash(request[i].url[2])
                   THEN <<"url", config[2].url \o request[i].url[2]>>
                   ELSE request[i].url)
            /\ sent[i].headers = authorized[i].headers
            /\ sent[i].method = authorized[i].method
            /\ sent[i].body = authorized[i].body
            /\ sent[i].method = request[i].method
            /\ sent[i].body = request[i].body

\* /todos/42 went out as https://api.example.com/todos/42 with a bearer token
C19_Witness ==
    \E i \in Invocations :
        /\ Outgoing(i)
        /\ request[i].url = <<"url", <<"/", "todos", "/", "42">>>>
        /\ sent[i].url = <<"url", <<"https://api.example.com", "/", "todos", "/", "42">>>>
        /\ <<"authorization", "Bearer s3cr3t">> \in sent[i].headers

\* C20: token rule of the Request Rewriter: with a defined accessToken (any
\* string) every outgoing request carries Authorization: Bearer <accessToken>;
\* with an undefined accessToken the headers are left unchanged; the rule
\* never changes the url.
C20_TokenRule ==
    \A i \in Invocations :
        Outgoing(i) =>
            /\ config[2].accessToken # Undefined =>
                  /\ <<"authorization", BearerValue(config[2].accessToken[2])>>
                         \in authorized[i].headers
                  /\ <<"authorization", BearerValue(config[2].accessToken[2])>>
                         \in sent[i].headers
            /\ config[2].accessToken = Undefined =>
                  authorized[i].headers = request[i].headers
            /\ authorized[i].url = request[i].url

\* a url with a scheme and a host
IsAbsoluteUrl(u) ==
    Len(u) > 0 /\ u[1] \in {"https://api.example.com", "https://other.example.com"}

\* the Authorization header of the request is Bearer <accessToken>
HasBearer(cfg, req) ==
    /\ cfg.accessToken # Undefined
    /\ <<"authorization", BearerValue(cfg.accessToken[2])>> \in req.headers

\* C21: the Request Rewriter applied to a request whose url is already
\* absolute and whose Authorization header is already Bearer <accessToken>
\* yields the same request, and its two rules applied in either order yield
\* the same request.
C21_RewriterIdempotent ==
    \A i \in Invocations :
        Outgoing(i) =>
            /\ IsAbsoluteUrl(sent[i].url[2]) /\ HasBearer(config[2], sent[i])
                  => Rewrite(config[2], sent[i]) = sent[i]
            /\ \A r \in {request[i], sent[i]} :
                  /\ UrlRule(config[2], TokenRule(config[2], r))
                        = TokenRule(config[2], UrlRule(config[2], r))
                  /\ Rewrite(config[2], r) = TokenRule(config[2], UrlRule(config[2], r))
            /\ sent[i] = TokenRule(config[2], UrlRule(config[2], request[i]))

\* a relative request went out absolute with the bearer token in place of
\* the route's own authorization header, so both rules have acted on it
C21_Witness ==
    \E i \in Invocations :
        /\ Outgoing(i)
        /\ StartsWithSlash(request[i].url[2])
        /\ <<"authorization", "Basic dXNlcg==">> \in request[i].headers
        /\ IsAbsoluteUrl(sent[i].url[2]) /\ HasBearer(config[2], sent[i])
        /\ sent[i] # request[i]

\* everything invocation i reads or writes while it runs
Local(i) ==
    <<pc[i], params[i], url[i], headers[i], request[i], authorized[i], sent[i],
      response[i], outcome[i], answer[i], trace[i]>>

\* the request an invocation of route rt with parameters p assembles when it
\* runs alone
SoloRequest(rt, p) ==
    AssembleRequest(rt, ResolveUrl(rt, p), getHeaders(rt, p, TRUE)[2], BodyJson(rt, p))

\* the outcomes of an invocation of route rt with parameters p that runs
\* alone and ends before the transport answers
SoloFailuresBefore(rt, p) ==
    (IF CallsHeadersFn(rt, p) THEN {getHeaders(rt, p, FALSE)} ELSE {})
    \cup (IF ResolveUrl(rt, p)[1] = "function" THEN {Die(TypeErrorDefect)} ELSE {})

\* the outcomes of an invocation of route rt that runs alone and receives the
\* answer a from the transport
SoloOutcomes(rt, a) ==
    LET r == ExecuteResult(rt, a)
    IN  IF ~IsOk(r) THEN {r}
        ELSE IF IsFailed(rt, r[2]) THEN {getError(rt.error, r[2]).out}
        ELSE {getResponse(rt.response, r[2], fnOk).out : fnOk \in BOOLEAN}

\* request and outcome of every invocation are those of the same call alone
SameAsAlone ==
    \A i \in Invocations :
        /\ request[i] \in {NoRequest, SoloRequest(route[i], params[i])}
        /\ Handed(i) => request[i] = SoloRequest(route[i], params[i])
        /\ pc[i] = "done" =>
              outcome[i] \in (IF answer[i] = None
                              THEN SoloFailuresBefore(route[i], params[i])
                              ELSE SoloOutcomes(route[i], answer[i]))

\* a step of one invocation leaves everything of the others, and the routes,
\* as they are
StepsAreLocal ==
    /\ route' = route /\ origin' = origin /\ config' = config
    /\ \A i, j \in Invocations :
          (i # j /\ Local(i)' # Local(i)) => Local(j)' = Local(j)

\* C22: concurrent invocations are independent: in any interleaving each
\* invocation's assembled request and final outcome are those it produces
\* alone with the same parameters and the same transport answer, and no
\* step of an invocation writes what another one reads.
C22_Independent == []SameAsAlone /\ [][StepsAreLocal]_vars

\* two invocations of the same route with different parameters ran side by
\* side: one has ended with a value while the other is still classifying
C22_Witness ==
    \E i, j \in Invocations :
        /\ i # j /\ route[i] = route[j] /\ params[i] # params[j]
        /\ pc[i] = "done" /\ IsOk(outcome[i])
        /\ pc[j] = "error"
        /\ request[i] # request[j]

\* the resolver of descriptor who ("response" or "error") has run in
\* invocation i
Resolver(i, who) == IF who = "error" THEN RanError(i) ELSE RanResponse(i)

\* C23: a response or error descriptor that carries the schema marker is
\* always treated as a schema (the body is decoded against it), a callable
\* class-based schema included, and a descriptor is invoked as a function
\* only when it is a plain function without the marker; the decision is the
\* one fromMakerError takes.
C23_SchemaMarkerDecides ==
    \A i \in Invocations : \A who \in {"response", "error"} :
        Resolver(i, who) /\ Truthy(route[i][who]) =>
            /\ isSchema(route[i][who]) =>
                  /\ Events(i, who, "call") = {}
                  /\ Events(i, who, "json") # {}
            /\ Events(i, who, "call") # {} => ~isSchema(route[i][who])
            /\ (fromMakerError(route[i][who])[1] = "Fn") <=> (Events(i, who, "call") # {})

\* the place of a logged event in the chain of steps of an invocation
Rank(e) ==
    CASE e[1] = "url" -> 0
      [] e[1] = "headers" -> 1
      [] e[1] = "body" -> 2
      [] e[1] = "step" /\ e[2] = "assemble" -> 3
      [] e[1] = "step" /\ e[2] = "execute" -> 4
      [] e[1] = "step" -> 5
      [] OTHER -> 6

\* the events of invocation i are logged in the order of the chain, each
\* step once
InOrder(i) ==
    /\ \A k, l \in DOMAIN trace[i] : k < l => Rank(trace[i][k]) <= Rank(trace[i][l])
    /\ \A k, l \in DOMAIN trace[i] :
          k < l /\ Rank(trace[i][k]) < 6 => Rank(trace[i][k]) < Rank(trace[i][l])
    /\ pc[i] \in {"headers", "body"} => Events(i, "step", "assemble") = {}
    /\ Events(i, "step", "execute") # {} => Events(i, "step", "assemble") # {}
    /\ (RanError(i) \/ RanResponse(i)) => Events(i, "step", "execute") # {}

\* C24: within one invocation the steps occur in the order headers, body,
\* assembly, execute, classification, Error or Response Resolver, and
\* execute is never started before headers resolution and body encoding
\* have both succeeded.
C24_StepOrder ==
    \A i \in Invocations :
        /\ InOrder(i)
        /\ Events(i, "step", "execute") # {} =>
              /\ \A k \in Events(i, "headers", "call") : trace[i][k][4]
              /\ \A k \in Events(i, "body", "encode") :
                    IsOk(SchemaEncode(route[i].body, trace[i][k][3]))

\* the headers function of invocation i was invoked and failed
HeadersFnFailed(i) == \E k \in Events(i, "headers", "call") : ~trace[i][k][4]

\* C25: when the headers descriptor is a function and its invocation fails,
\* the whole invocation fails with exactly that failure, the body is not
\* sent and execute is never called.
C25_HeadersFailurePropagates ==
    \A i \in Invocations :
        HeadersFnFailed(i) =>
            /\ pc[i] = "done"
            /\ outcome[i] = Fail(HeadersFailure)
            /\ request[i] = NoRequest /\ sent[i] = NoRequest /\ answer[i] = None
            /\ Events(i, "body", "encode") = {}
            /\ Events(i, "step", "assemble") = {}
            /\ Events(i, "step", "execute") = {}

\* a call with a body to a route with a body schema ended on the failure of
\* its headers function
C25_Witness ==
    \E i \in Invocations :
        /\ HeadersFnFailed(i) /\ pc[i] = "done"
        /\ EncodesBody(route[i], params[i])

\* C26: at most one of the Error Resolver and the Response Resolver runs; an
\* invocation classified FAILED never runs the response descriptor and never
\* completes with a success value.
C26_ClassifiedOnce ==
    \A i \in Invocations :
        /\ ~(RanError(i) /\ RanResponse(i))
        /\ Cardinality(Events(i, "step", "getError")) <= 1
        /\ Cardinality(Events(i, "step", "getResponse")) <= 1
        /\ (pc[i] = "error" \/ RanError(i)) =>
              /\ EventsOf(i, "response") = {}
              /\ ~RanResponse(i)
              /\ pc[i] \in {"error", "done"}
              /\ pc[i] = "done" => outcome[i][1] \in {"fail", "die"}

\* a FAILED invocation of a route that has a response function as well ended
\* with the value of its error function
C26_Witness ==
    \E i \in Invocations :
        /\ RanError(i) /\ pc[i] = "done"
        /\ route[i].response = FnOf("responseFn")
        /\ route[i].error = FnOf("errorFn")
        /\ outcome[i] = Fail(ErrorFn(response[i]))

\* C27: when execute fails at the transport, the invocation fails with
\* exactly the failure the transport produced, and neither the error
\* descriptor nor the response descriptor is invoked.
C27_TransportFailureUnchanged ==
    \A i \in Invocations :
        (answer[i] # None /\ ~IsOk(answer[i])) =>
            /\ pc[i] = "done"
            /\ outcome[i] = answer[i]
            /\ ~RanError(i) /\ ~RanResponse(i)
            /\ EventsOf(i, "error") = {} /\ EventsOf(i, "response") = {}

\* the transport failed for a route that has both an error and a response
\* descriptor
C27_Witness ==
    \E i \in Invocations :
        /\ answer[i] = Fail(TransportFailure) /\ pc[i] = "done"
        /\ Truthy(route[i].error) /\ Truthy(route[i].response)
        /\ Events(i, "step", "execute") # {}

\* the per-call spec of invocation i holds key k with the value undefined
SuppliesUndefined(i, k) == Supplies(i, k) /\ origin[i].spec[k] = Absent

\* C28: a per-call spec given to a client method in which the headers key
\* (or the error key) is present with the value undefined suppresses the
\* client's default for that field: the route has no headers (no error
\* descriptor), so a bad status is classified OK instead of going to the
\* client's default error.
C28_UndefinedSuppressesDefault ==
    \A i \in Invocations :
        ViaClient(i) =>
            /\ SuppliesUndefined(i, "headers") =>
                  /\ route[i].headers = Absent
                  /\ Handed(i) => headers[i] = Undefined
                  /\ Handed(i) /\ Truthy(origin[i].client.headers)
                        => origin[i].client.headers[2] \cap request[i].headers = {}
            /\ SuppliesUndefined(i, "error") =>
                  /\ route[i].error = Absent
                  /\ ~RanError(i) /\ EventsOf(i, "error") = {}
                  /\ Answered(i) /\ IsOk(ExecuteResult(route[i], answer[i]))
                        => pc[i] = "response" \/ RanResponse(i)

\* a client with a default error made a route by put with error: undefined;
\* a bad status came back and the invocation ended with the response as its
\* value
C28_Witness ==
    \E i \in Invocations :
        /\ ViaClient(i) /\ origin[i].method = "put"
        /\ origin[i].client.error = ClientError
        /\ SuppliesUndefined(i, "error")
        /\ Answered(i) /\ BadStatus(AnswerStatus(i))
        /\ pc[i] = "done" /\ RanResponse(i) /\ outcome[i] = Ok(response[i])

\* the reads of the response body as JSON made in invocation i
JsonReads(i) == Events(i, "response", "json") \cup Events(i, "error", "json")

\* C29: in every invocation the response body is read as JSON at most once,
\* and only on a path where a schema descriptor applies (response schema on
\* OK, error schema on FAILED); with function descriptors or no descriptor
\* the body is never read.
C29_BodyReadAtMostOnce ==
    \A i \in Invocations :
        /\ Cardinality(JsonReads(i)) <= 1
        /\ Events(i, "response", "json") # {} =>
              /\ isSchema(route[i].response)
              /\ RanResponse(i) /\ ~IsFailed(route[i], response[i])
        /\ Events(i, "error", "json") # {} =>
              /\ isSchema(route[i].error)
              /\ RanError(i) /\ IsFailed(route[i], response[i])
        /\ \A who \in {"response", "error"} :
              ~isSchema(route[i][who]) => Events(i, who, "json") = {}

\* a FAILED invocation of a route with an error schema and a response schema
\* read the body once, for the error schema
C29_Witness ==
    \E i \in Invocations :
        /\ pc[i] = "done" /\ RanError(i)
        /\ isSchema(route[i].error) /\ isSchema(route[i].response)
        /\ Cardinality(Events(i, "error", "json")) = 1
        /\ Events(i, "error", "decode") # {}

\* how far invocation i is in the chain of steps
Progress(i) ==
    CASE pc[i] = "idle" -> 0
      [] pc[i] = "headers" -> 1
      [] pc[i] = "body" -> 2
      [] pc[i] = "execute" -> 3
      [] pc[i] \in {"error", "response"} -> 4
      [] pc[i] = "done" -> 5
      [] OTHER -> 6

\* invocation i has ended with a value or with an error, and not before
Terminal(i) == (pc[i] = "done") <=> (outcome[i] # None)

\* a step never takes an invocation back, and an outcome is never replaced
NeverBack ==
    \A i \in Invocations :
        /\ Progress(i)' >= Progress(i)
        /\ pc[i]' # pc[i] => Progress(i)' > Progress(i)
        /\ outcome[i] # None => outcome[i]' = outcome[i] /\ pc[i]' = "done"

\* C30: provided every capability call returns, every invocation eventually
\* reaches exactly one terminal outcome, success with a value or failure
\* with an error, and never returns to an earlier step.
C30_Terminates ==
    /\ <>(\A i \in Invocations :
             pc[i] = "done" /\ outcome[i][1] \in {"ok", "fail", "die"})
    /\ [](\A i \in Invocations : Terminal(i))
    /\ [][NeverBack]_vars

\* every invocation has ended, one with a value and one with a failure
C30_Witness ==
    /\ \A i \in Invocations : pc[i] = "done"
    /\ \E i, j \in Invocations : IsOk(outcome[i]) /\ outcome[j][1] = "fail"
====
